---- MODULE Spec2Model ----
(***************************************************************************)
(* Drowsiness detection: the eye-aspect-ratio estimator of                 *)
(* drowsy_detection.py (DrowsyDetector) and the Streamlit session of       *)
(* streamlit_app.py (StreamlitDrowsyDetector and main).                    *)
(*                                                                         *)
(* Units.  Scores and thresholds are exact rationals; a threshold is kept  *)
(* in hundredths (0.18 is 18).  Times are in half seconds (0.5 s is 1).    *)
(* Normalised landmark coordinates are k / LmDen.  A float result is a     *)
(* record: a finite value n/d in lowest terms, +Infinity or NaN.           *)
(* Rounding of finite float results is not modelled.                       *)
(***************************************************************************)
EXTENDS Integers, Sequences, FiniteSets

VARIABLES detector, cap, detection_active, stats, now, out, upd, sub_since,
          lib_frame, lib_detector, lib_out

app_vars == <<detector, cap, detection_active, stats, now, out, upd, sub_since>>
lib_vars == <<lib_frame, lib_detector, lib_out>>
vars == <<detector, cap, detection_active, stats, now, out, upd, sub_since,
          lib_frame, lib_detector, lib_out>>

\* Python's None, and a present value.
None == <<>>
Some(x) == <<x>>

-----------------------------------------------------------------------------
(* Bounds of the model *)

\* Landmark coordinates range over 0/LmDen .. LmMax/LmDen.
LmMax == 2
\* The wall clock reads 0 .. MaxClock (half seconds).
MaxClock == 3
\* total_detections is capped at MaxDetections.
MaxDetections == 2

-----------------------------------------------------------------------------
(* Program constants *)

\* Denominator of the normalised coordinates lm.x, lm.y.
LmDen == 2

\* st.slider("EAR Threshold", min_value=0.10, max_value=0.35, value=0.18)
EAR_SLIDER_MIN == 10
EAR_SLIDER_MAX == 35
EAR_SLIDER_DEFAULT == 18
\* st.slider("Wait Time (seconds)", min_value=0.5, max_value=3.0, value=1.0)
WAIT_SLIDER_MIN == 1
WAIT_SLIDER_MAX == 6
WAIT_SLIDER_DEFAULT == 2

\* self.eye_idxs: the six landmark indices P1..P6 of each eye
eye_idxs == [left  |-> <<362, 385, 387, 263, 373, 380>>,
             right |-> <<33, 160, 158, 133, 153, 144>>]

-----------------------------------------------------------------------------
(* Float arithmetic as the estimator uses it *)

RECURSIVE GCD(_, _)
GCD(a, b) == IF b = 0 THEN a ELSE GCD(b, a % b)

\* The finite value n/d (n >= 0, d > 0), in lowest terms.
Num(n, d) == LET g == GCD(n, d) IN [k |-> "num", n |-> n \div g, d |-> d \div g]
Inf == [k |-> "inf", n |-> 1, d |-> 0]
NaN == [k |-> "nan", n |-> 0, d |-> 0]
One == Num(1, 1)

\* a / b on numpy float64 scalars, a >= 0 and b >= 0: a zero divisor gives
\* +Infinity, or NaN for 0/0 (a RuntimeWarning, no exception).
FDiv(a, b) == IF b = 0 THEN (IF a = 0 THEN NaN ELSE Inf) ELSE Num(a, b)

\* (l + r) / 2.0 on float64 values that are finite and >= 0, +Infinity or NaN.
FMean(l, r) ==
    IF l.k = "nan" \/ r.k = "nan" THEN NaN
    ELSE IF l.k = "inf" \/ r.k = "inf" THEN Inf
    ELSE Num(l.n * r.d + r.n * l.d, 2 * l.d * r.d)

\* e < th/100; every comparison with NaN is False, and +Infinity is below no
\* finite threshold.
FLess(e, th) == e.k = "num" /\ e.n * 100 < th * e.d

\* int(v): truncation toward zero of the float n/d (d > 0).
Trunc(n, d) == IF n >= 0 THEN n \div d ELSE -((-n) \div d)

\* The integer square root; exact on perfect squares, which is what the eye
\* shapes of Frames produce.
ISqrt(s) == CHOOSE r \in 0..s : r * r <= s /\ s < (r + 1) * (r + 1)

\* np.linalg.norm(np.array(p) - np.array(q))
norm(p, q) == ISqrt((p[1] - q[1]) * (p[1] - q[1]) + (p[2] - q[2]) * (p[2] - q[2]))

-----------------------------------------------------------------------------
(* drowsy_detection.py *)

\* coords.append((int(lm.x * frame_w), int(lm.y * frame_h)))
pixel(lm, frame_w, frame_h) ==
    <<Trunc(lm.x * frame_w, LmDen), Trunc(lm.y * frame_h, LmDen)>>

\* DrowsyDetector.get_ear without the factor 2.0 of the divisor.
get_ear_no_half(landmarks, refer_idxs, frame_w, frame_h) ==
    LET coords == [i \in 1..Len(refer_idxs) |->
                      pixel(landmarks[refer_idxs[i]], frame_w, frame_h)]
    IN  FDiv(norm(coords[2], coords[6]) + norm(coords[3], coords[5]),
             norm(coords[1], coords[4]))

\* DrowsyDetector.get_ear.  coords is 1-based here: coords[1] is P1.
get_ear(landmarks, refer_idxs, frame_w, frame_h) ==
    LET coords == [i \in 1..Len(refer_idxs) |->
                      pixel(landmarks[refer_idxs[i]], frame_w, frame_h)]
        P2_P6 == norm(coords[2], coords[6])
        P3_P5 == norm(coords[3], coords[5])
        P1_P4 == norm(coords[1], coords[4])
    IN  FDiv(P2_P6 + P3_P5, 2 * P1_P4)

\* DrowsyDetector.process with ear initialised to 0.0 instead of 1.0.
process_zero_default(frame) ==
    IF Len(frame.multi_face_landmarks) > 0
    THEN LET landmarks == frame.multi_face_landmarks[1]
         IN  FMean(get_ear(landmarks, eye_idxs.left, frame.w, frame.h),
                   get_ear(landmarks, eye_idxs.right, frame.w, frame.h))
    ELSE Num(0, 1)

\* DrowsyDetector.process.  A frame carries its shape and what FaceMesh finds
\* in it: multi_face_landmarks, empty when no face is detected.
process(frame) ==
    LET h == frame.h
        w == frame.w
        results == frame.multi_face_landmarks
    IN  IF Len(results) > 0
        THEN LET landmarks == results[1]
                 left_ear == get_ear(landmarks, eye_idxs.left, w, h)
                 right_ear == get_ear(landmarks, eye_idxs.right, w, h)
             IN  FMean(left_ear, right_ear)
        ELSE One

\* DrowsyDetector.__init__: stores its arguments unchecked.
DrowsyDetector(ear_thresh, wait_time) ==
    [ear_thresh |-> ear_thresh, wait_time |-> wait_time, drowsy_start |-> None]

-----------------------------------------------------------------------------
(* Inputs: frames *)

\* One eye, P1..P6: corners P1 and P4 on a horizontal line, each lid pair on
\* a vertical line, so that all three distances are whole pixels.
Eye(x4, y6, y5) ==
    << [x |-> 0, y |-> 0], [x |-> 0, y |-> 0], [x |-> 1, y |-> 0],
       [x |-> x4, y |-> 0], [x |-> 1, y |-> y5], [x |-> 0, y |-> y6] >>

EyeShapes == {Eye(x4, y6, y5) : x4 \in 0..LmMax, y6 \in 0..LmMax, y5 \in 0..LmMax}

\* The landmark list of a face whose eyes have the shapes l and r.
Landmarks(l, r) ==
    [idx \in {eye_idxs.left[i] : i \in 1..6} \cup {eye_idxs.right[i] : i \in 1..6} |->
        IF \E i \in 1..6 : eye_idxs.left[i] = idx
        THEN l[CHOOSE i \in 1..6 : eye_idxs.left[i] = idx]
        ELSE r[CHOOSE i \in 1..6 : eye_idxs.right[i] = idx]]

\* frame.shape[:2], (h, w)
FrameShapes == {<<10, 10>>, <<1, 1>>, <<10, 1>>}

Frames ==
    {[h |-> s[1], w |-> s[2], multi_face_landmarks |-> <<>>] : s \in FrameShapes}
    \cup
    {[h |-> s[1], w |-> s[2], multi_face_landmarks |-> <<Landmarks(l, r)>>] :
        s \in FrameShapes, l \in EyeShapes, r \in EyeShapes}

-----------------------------------------------------------------------------
(* The estimator used on its own: DrowsyDetector(...) and process(frame) *)

\* Constructor arguments a caller may pass: the slider's values and values
\* outside (0, 1) exclusive and not above 0.
ApiEarThresh == {0, EAR_SLIDER_DEFAULT, 100, 150}
ApiWaitTimes == {-1, 0, WAIT_SLIDER_DEFAULT}

LibInit ==
    /\ lib_frame \in Frames
    /\ lib_detector = None
    /\ lib_out = None

\* d = DrowsyDetector(ear_thresh, wait_time)
LibConstruct ==
    \E et \in ApiEarThresh, wt \in ApiWaitTimes :
        /\ lib_detector' = Some(DrowsyDetector(et, wt))
        /\ lib_out' = None
        /\ UNCHANGED lib_frame

\* ear = d.process(frame)
LibProcess ==
    /\ lib_detector # None
    /\ lib_out = None
    /\ lib_out' = Some(process(lib_frame))
    /\ UNCHANGED <<lib_frame, lib_detector>>

-----------------------------------------------------------------------------
(* streamlit_app.py: StreamlitDrowsyDetector *)

\* The frames the camera delivers: 10 x 10 images of a face whose eyes are
\* drawn from six shapes (corner distance 0 or 10 pixels, one lid pair 0, 5 or
\* 10 pixels apart, the other closed), or of no face.
CameraEyes == {Eye(x4, y6, 0) : x4 \in {0, 2}, y6 \in 0..2}

CameraFrames ==
    {[h |-> 10, w |-> 10, multi_face_landmarks |-> <<>>]}
    \cup
    {[h |-> 10, w |-> 10, multi_face_landmarks |-> <<Landmarks(l, r)>>] :
        l \in CameraEyes, r \in CameraEyes}

\* What the try block of main meets: cap.read() failing, a library call
\* raising, or a frame with the score detector.process gives for it (process
\* tabulated over CameraFrames).
CameraReads ==
    {[ret |-> FALSE, raises |-> FALSE, face |-> FALSE, ear |-> One],
     [ret |-> TRUE, raises |-> TRUE, face |-> FALSE, ear |-> One]}
    \cup
    {[ret |-> TRUE, raises |-> FALSE,
      face |-> Len(f.multi_face_landmarks) > 0, ear |-> process(f)] :
        f \in CameraFrames}

\* StreamlitDrowsyDetector.__init__: self.stats, at clock reading t.
InitialStats(t) ==
    [total_detections |-> 0, session_start |-> t, last_drowsy_time |-> None]

\* initialize_detector: the constructor's only failure is FaceMesh raising,
\* which leaves self.detector as it was.
initialize_detector(self_detector, ear_thresh, wait_time, mesh_ok) ==
    IF mesh_ok
    THEN [detector |-> Some(DrowsyDetector(ear_thresh, wait_time)), ret |-> TRUE]
    ELSE [detector |-> self_detector, ret |-> FALSE]

\* initialize_camera: cam is what cv2.VideoCapture(camera_source) does, a
\* capture that is "opened", one that is "closed", or "raise".  The previous
\* capture is released first.
initialize_camera(self_cap, cam) ==
    IF cam = "opened" THEN [cap |-> "opened", ret |-> TRUE]
    ELSE IF cam = "closed" THEN [cap |-> "closed", ret |-> FALSE]
    ELSE [cap |-> IF self_cap = "None" THEN "None" ELSE "closed", ret |-> FALSE]

\* is_drowsy with <= for <.
is_drowsy_le(self_detector, ear) ==
    IF self_detector # None
    THEN ear.k = "num" /\ ear.n * 100 <= self_detector[1].ear_thresh * ear.d
    ELSE FALSE

\* is_drowsy gated by a timer that a backward clock step never satisfies.
is_drowsy_unclamped(self_detector, ear) ==
    IF self_detector # None
    THEN FLess(ear, self_detector[1].ear_thresh) /\ now' - now >= 0
    ELSE FALSE

\* is_drowsy: return ear < self.detector.ear_thresh if self.detector else False
is_drowsy(self_detector, ear) ==
    IF self_detector # None THEN FLess(ear, self_detector[1].ear_thresh) ELSE FALSE

\* return None, None, None
NoneTriple == [frame |-> None, ear |-> None, is_drowsy |-> None]

\* The first guard of process_frame without the isOpened() test.
CameraUnavailable_no_isOpened(self_cap) == self_cap = "None"

\* if self.cap is None or not self.cap.isOpened()
CameraUnavailable(self_cap) == self_cap = "None" \/ self_cap # "opened"

\* process_frame: read is the outcome of self.cap.read().  The overlaid frame
\* is kept as the face flag of the frame it was drawn on.
process_frame(self_cap, self_detector, read) ==
    IF CameraUnavailable(self_cap) THEN NoneTriple
    ELSE IF ~read.ret THEN NoneTriple
    ELSE [frame |-> Some(read.face),
          ear |-> Some(read.ear),
          is_drowsy |-> Some(is_drowsy(self_detector, read.ear))]

-----------------------------------------------------------------------------
(* streamlit_app.py: main, one run of the script.  cleanup() runs only when
   st.session_state holds cleanup_needed, which nothing sets. *)

\* The slider values Initialize System is pressed with: thresholds 0.18 and
\* 0.25, wait times 0.5 s and 1.0 s.
SliderEarThresh ==
    {th \in EAR_SLIDER_MIN..EAR_SLIDER_MAX : th \in {EAR_SLIDER_DEFAULT, 25}}
SliderWaitTimes ==
    {wt \in WAIT_SLIDER_MIN..WAIT_SLIDER_MAX : wt <= WAIT_SLIDER_DEFAULT}
\* The readings of time.time(), the wall clock: a reading may be earlier
\* than the one before.  One run of main reads it once.
Clock == 0..MaxClock

\* stats after a displayed frame: the drowsy branch counts and stamps.
UpdateStats(st, drowsy, t) ==
    IF drowsy
    THEN [st EXCEPT !.total_detections = @ + 1, !.last_drowsy_time = Some(t)]
    ELSE st

\* What the try block meets when cap.read() is not reached.
NotRead == [ret |-> FALSE, raises |-> FALSE, face |-> FALSE, ear |-> One]

\* The body of "if frame is not None" and the except clause, and what the
\* run leaves behind.  res is what process_frame returned (NoneTriple when it
\* was not called), read what cap.read() and the library calls of the try
\* block met, t the reading of time.time(), fresh whether this run built a
\* new detector.
Display(self_detector, self_cap, active, fresh, t, read, res) ==
    LET looped == active /\ self_detector # None
        shown == looped /\ res.frame # None /\ ~read.raises
        failed == looped /\ res.frame # None /\ read.raises
        drowsy == shown /\ res.is_drowsy[1]
        sub == shown /\ FLess(res.ear[1], self_detector[1].ear_thresh)
    IN  /\ drowsy => stats.total_detections < MaxDetections
        /\ detector' = self_detector
        /\ cap' = self_cap
        /\ detection_active' = IF looped THEN (active /\ ~failed) ELSE FALSE
        /\ stats' = IF shown THEN UpdateStats(stats, drowsy, t) ELSE stats
        /\ out' = [branch |-> IF shown THEN "frame"
                              ELSE IF failed THEN "error"
                              ELSE IF looped THEN "no_frame"
                              ELSE IF active THEN "uninitialized"
                              ELSE "inactive",
                   ret |-> IF looped /\ ~CameraUnavailable(self_cap)
                           THEN Some(read.ret) ELSE None,
                   frame |-> IF shown THEN res.frame ELSE None,
                   ear |-> IF shown THEN res.ear ELSE None,
                   is_drowsy |-> IF shown THEN res.is_drowsy ELSE None]
        \* observers: the outcome of the latest update and of the one before,
        \* and the clock reading of the first frame of the running
        \* sub-threshold run; a new detector starts afresh
        /\ upd' = IF shown THEN [cur |-> res.is_drowsy,
                                 prev |-> IF fresh THEN None ELSE upd.cur]
                  ELSE IF fresh THEN [cur |-> None, prev |-> None]
                  ELSE upd
        /\ sub_since' = IF shown
                        THEN (IF ~sub THEN None
                              ELSE IF fresh \/ sub_since = None THEN Some(t)
                              ELSE sub_since)
                        ELSE IF fresh THEN None
                        ELSE sub_since

\* The main detection loop of one run: self_detector, self_cap and active are
\* detector_system.detector, detector_system.cap and
\* st.session_state.detection_active as the sidebar left them.
DetectionLoop(self_detector, self_cap, active, fresh, t) ==
    \E read \in (IF active /\ self_detector # None /\ ~CameraUnavailable(self_cap)
                 THEN CameraReads ELSE {NotRead}) :
        Display(self_detector, self_cap, active, fresh, t, read,
                IF active /\ self_detector # None
                THEN process_frame(self_cap, self_detector, read)
                ELSE NoneTriple)

\* The sidebar of one run, then the loop.  di is what Initialize System did
\* to the detector (the detector as it was when the button is not pressed).
Sidebar(button, di, cam, t) ==
    DetectionLoop(di.detector,
                  \* Initialize System: the camera, once the detector is built
                  IF button = "init" /\ di.ret
                  THEN initialize_camera(cap, cam).cap
                  ELSE cap,
                  \* Start Detection, Stop Detection
                  IF button = "start" THEN (di.detector # None \/ detection_active)
                  ELSE IF button = "stop" THEN FALSE
                  ELSE detection_active,
                  button = "init" /\ di.ret,
                  t)

\* One run of main.  button is the button pressed in this run ("none" for a
\* rerun), ear_threshold and wait_time the slider values, mesh_ok and cam what
\* the constructors do, t the reading of time.time().
Main(button, ear_threshold, wait_time, mesh_ok, cam, t) ==
    /\ now' = t
    /\ Sidebar(button,
               IF button = "init"
               THEN initialize_detector(detector, ear_threshold, wait_time, mesh_ok)
               ELSE [detector |-> detector, ret |-> FALSE],
               cam, t)

\* A rerun of the script with no button pressed (st.rerun(), or any widget).
Rerun ==
    \E t \in Clock :
        /\ Main("none", EAR_SLIDER_DEFAULT, WAIT_SLIDER_DEFAULT, TRUE, "opened",
                t)
        /\ UNCHANGED lib_vars

\* What pressing Initialize System can meet: FaceMesh raising (the sliders
\* and the camera then play no part), or a detector built from the slider
\* values followed by initialize_camera.
InitializeInputs ==
    {[mesh_ok |-> FALSE, cam |-> "raise",
      ear_thresh |-> EAR_SLIDER_DEFAULT, wait_time |-> WAIT_SLIDER_DEFAULT]}
    \cup
    {[mesh_ok |-> TRUE, cam |-> cam, ear_thresh |-> et, wait_time |-> wt] :
        cam \in {"opened", "closed", "raise"},
        et \in SliderEarThresh, wt \in SliderWaitTimes}

\* The run in which Initialize System is pressed.
PressInitialize ==
    \E i \in InitializeInputs, t \in Clock :
        /\ Main("init", i.ear_thresh, i.wait_time, i.mesh_ok, i.cam, t)
        /\ UNCHANGED lib_vars

\* The run in which Start Detection is pressed.
PressStart ==
    \E t \in Clock :
        /\ Main("start", EAR_SLIDER_DEFAULT, WAIT_SLIDER_DEFAULT, TRUE, "opened",
                t)
        /\ UNCHANGED lib_vars

\* The run in which Stop Detection is pressed.
PressStop ==
    \E t \in Clock :
        /\ Main("stop", EAR_SLIDER_DEFAULT, WAIT_SLIDER_DEFAULT, TRUE, "opened",
                t)
        /\ UNCHANGED lib_vars

-----------------------------------------------------------------------------
(* Specifications *)

\* The session after its first lines: StreamlitDrowsyDetector() constructed,
\* detection_active False, nothing shown yet.
AppInit ==
    /\ detector = None
    /\ cap = "None"
    /\ detection_active = FALSE
    /\ now = 0
    /\ stats = InitialStats(0)
    /\ out = [branch |-> "inactive", ret |-> None, frame |-> None,
              ear |-> None, is_drowsy |-> None]
    /\ upd = [cur |-> None, prev |-> None]
    /\ sub_since = None

LibIdle ==
    /\ lib_frame = [h |-> 1, w |-> 1, multi_face_landmarks |-> <<>>]
    /\ lib_detector = None
    /\ lib_out = None

Init == AppInit /\ LibIdle

Next == Rerun \/ PressInitialize \/ PressStart \/ PressStop

\* The Streamlit session.
Spec == Init /\ [][Next]_vars

EstInit == AppInit /\ LibInit

EstNext ==
    \/ LibConstruct /\ UNCHANGED app_vars
    \/ LibProcess /\ UNCHANGED app_vars

\* The estimator called directly.
SpecLib == EstInit /\ [][EstNext]_vars

-----------------------------------------------------------------------------
(* Vocabulary of the properties *)

\* The latest run of main processed and displayed a frame: one update.
Updated == out.branch = "frame"
\* The threshold and wait time of the session's detector.
Thresh == detector[1].ear_thresh
WaitTime == detector[1].wait_time
\* A score strictly below, and at or above, the threshold th (hundredths).
\* NaN is neither.
Below(e, th) == e.k = "num" /\ e.n * 100 < th * e.d
AtOrAbove(e, th) == e.k = "inf" \/ (e.k = "num" /\ e.n * 100 >= th * e.d)
\* Config: earThreshold in the open interval (0, 1), waitTime > 0.
ValidConfig(d) == 0 < d.ear_thresh /\ d.ear_thresh < 100 /\ d.wait_time > 0
\* The latest update was a no-detection frame.
NoFaceUpdate == Updated /\ out.frame = Some(FALSE)
\* Onset: is_drowsy returned True for the frame of the latest update.
Onset == Updated /\ out.is_drowsy = Some(TRUE)

\* The pixel distance between P_i and P_j of one eye of a frame with a face.
EyeDist(frame, idxs, i, j) ==
    LET lms == frame.multi_face_landmarks[1]
    IN  norm(pixel(lms[idxs[i]], frame.w, frame.h),
             pixel(lms[idxs[j]], frame.w, frame.h))
\* d0, the corner distance, and d1 + d2, the sum of the lid distances.
D0(frame, idxs) == EyeDist(frame, idxs, 1, 4)
Lids(frame, idxs) == EyeDist(frame, idxs, 2, 6) + EyeDist(frame, idxs, 3, 5)
\* process was called on lib_frame, and FaceMesh found a face in it.
FaceProcessed == lib_out # None /\ Len(lib_frame.multi_face_landmarks) > 0
\* What get_ear returns for one eye of lib_frame.
EyeRatio(idxs) ==
    get_ear(lib_frame.multi_face_landmarks[1], idxs, lib_frame.w, lib_frame.h)

-----------------------------------------------------------------------------
(* Claims *)

\* C1: in a run of sub-threshold updates the drowsy indication (is_drowsy
\* returning True) is raised at no update whose elapsed time since the first
\* sub-threshold frame of the run is less than waitTime.
C1_OnsetOnlyAfterWaitTime ==
    Onset => (sub_since # None /\ now - sub_since[1] >= WaitTime)

\* C2: once drowsy, a further consecutive sub-threshold update produces no
\* additional onset: total_detections does not grow again within the episode.
C2_NoRepeatedOnset ==
    [][(Updated' /\ upd'.prev = Some(TRUE) /\ upd'.cur = Some(TRUE))
          => stats'.total_detections = stats.total_detections]_vars

\* C3: after an above-threshold update, the first sub-threshold update of the
\* resumed run raises no onset and starts the timer: the timer start is the
\* time of that frame.
C3_RecoveryRestartsTimer ==
    (Updated /\ Below(out.ear[1], Thresh) /\ upd.prev = Some(FALSE))
        => (out.is_drowsy = Some(FALSE) /\ detector[1].drowsy_start = Some(now))

\* C4: a frame with no face detected scores the sentinel 1.0, which is below
\* no threshold of the open interval (0, 1), and is reported not drowsy.
C4_NoFaceStaysAlert ==
    NoFaceUpdate =>
        /\ out.ear = Some(One)
        /\ \A th \in 1..99 : ~Below(out.ear[1], th)
        /\ out.is_drowsy = Some(FALSE)

\* C4 witness: a no-detection frame following an update that was not drowsy.
C4_Witness == NoFaceUpdate /\ upd.prev = Some(FALSE) /\ ~Onset

\* C5: an eye whose corner distance dist(P1, P4) is zero in pixel coordinates
\* gets the sentinel 1.0 from get_ear, never NaN or Infinity.
C5_ZeroWidthEyeIsSentinel ==
    FaceProcessed =>
        \A side \in {"left", "right"} :
            D0(lib_frame, eye_idxs[side]) = 0 => EyeRatio(eye_idxs[side]) = One

\* C6: a detector constructed with earThreshold outside (0, 1) or
\* waitTime <= 0 does not come into being.
C6_InvalidConfigRejected ==
    lib_detector # None => ValidConfig(lib_detector[1])

\* C7: an update whose score is at or above the threshold, equality
\* included, reports not drowsy whatever the state before it; after it the
\* system is alert, and a further such update changes nothing.
C7_AtOrAboveThresholdClears ==
    (Updated /\ AtOrAbove(out.ear[1], Thresh)) => out.is_drowsy = Some(FALSE)

\* C7 witness: the system was drowsy and an update whose score equals the
\* threshold exactly ended the condition.
C7_Witness ==
    /\ Updated
    /\ upd.prev = Some(TRUE)
    /\ out.ear[1].n * 100 = Thresh * out.ear[1].d
    /\ out.ear[1].k = "num"
    /\ out.is_drowsy = Some(FALSE)

C10_ProcessingNeedsDetectorAndCamera ==
    /\ [](out.branch \in {"frame", "error", "no_frame"} => detector # None)
    /\ [](detection_active => detector # None)
    /\ [][(/\ out'.branch \in {"frame", "error", "no_frame"}
           /\ (cap' # "opened" \/ out'.ret = Some(FALSE)))
             => (/\ out'.branch = "no_frame"
                 /\ out'.frame = None /\ out'.ear = None /\ out'.is_drowsy = None
                 /\ stats' = stats)]_vars

\* C10 witness: detection is active on a detector whose camera did not open,
\* after earlier detections, and the run got no frame.
C10_Witness ==
    /\ detection_active
    /\ detector # None
    /\ cap = "closed"
    /\ out.branch = "no_frame"
    /\ stats.total_detections > 0

====
